---------------------------- MODULE Spec2Model ----------------------------
(***************************************************************************)
(* Conference-room booking backend (src/app.py, src/service/*.py).        *)
(*                                                                         *)
(* The program's state is the set of module-level dictionaries of         *)
(* src/app.py (all_floors, all_orgs, all_bookings,                        *)
(* organization_booking_hours) and the wall clock read by datetime.now(). *)
(* A Python dict is a TLA+ function; "k in d" is k \in DOMAIN d; a        *)
(* subscript d[k] with k missing raises KeyError, which every handler's   *)
(* "except Exception" turns into the generic 400 response, written here   *)
(* as the response kind "InternalFault".                                   *)
(*                                                                         *)
(* Timestamps are seconds on a model calendar whose months have           *)
(* DaysPerMonth days; At(month, day, hour, minute, second) is the         *)
(* datetime with these fields.                                             *)
(***************************************************************************)
EXTENDS Integers, Sequences, FiniteSets, TLC

VARIABLES
    all_floors,                 \* src/app.py:19  floor_number -> floor
    all_orgs,                   \* src/app.py:20  org_name -> organization
    all_bookings,               \* src/app.py:18  booking_id -> booking
    organization_booking_hours, \* src/app.py:22  org_name -> hours
    now,                        \* datetime.now(), the wall clock
    next_id,                    \* number of uuid4() values drawn so far
    pc,                         \* each thread's position in its handler and locals
    lock,                       \* src/app.py:14  threading.Lock(): TRUE when held
    last,                       \* the last response sent: [op, kind]
    asked_users,                \* history: emails add_user was asked to register
    quota_checks,               \* history: requests that reached line 397
    counted_month               \* history: month of the oldest hours counted

vars == << all_floors, all_orgs, all_bookings, organization_booking_hours,
           now, next_id, pc, lock, last, asked_users, quota_checks, counted_month >>

----------------------------------------------------------------------------
(* Bounds of the model                                                     *)

MaxFloors == 2
MaxBookings == 2
MaxQuotaChecks == 3
DaysPerMonth == 2
NThreads == 2

(* Program constants                                                       *)

FloorCapacity == 100
QuotaHours == 30
CancelMinutes == 15
SecondsPerHour == 3600
SecondsPerMinute == 60
HoursPerDay == 24

SecondsPerDay == HoursPerDay * SecondsPerHour

----------------------------------------------------------------------------
(* Python values                                                           *)

EmptyDict == << >>

Put(d, k, v) == [x \in (DOMAIN d) \cup {k} |-> IF x = k THEN v ELSE d[x]]

Del(d, k) == [x \in (DOMAIN d) \ {k} |-> d[x]]

Values(d) == {d[k] : k \in DOMAIN d}

RECURSIVE SumOver(_, _)
SumOver(d, S) ==
    IF S = {} THEN 0
    ELSE LET k == CHOOSE x \in S : TRUE
         IN d[k].capacity + SumOver(d, S \ {k})

RECURSIVE MaxOf(_)
MaxOf(S) ==
    LET x == CHOOSE y \in S : TRUE
    IN IF S = {x} THEN x
       ELSE LET m == MaxOf(S \ {x}) IN IF x > m THEN x ELSE m

(* str.lower() on the strings the requests use                             *)
LowerMap ==
    ("Acme" :> "acme") @@ ("U1@ACME.COM" :> "u1@acme.com") @@ ("E1" :> "e1")

Lower(s) == IF s \in DOMAIN LowerMap THEN LowerMap[s] ELSE s

(* datetime                                                                *)
At(month, day, hour, minute, second) ==
    ((month * DaysPerMonth + (day - 1)) * HoursPerDay + hour) * SecondsPerHour
    + minute * SecondsPerMinute + second

DayOf(t) == ((t \div SecondsPerDay) % DaysPerMonth) + 1

MonthOf(t) == t \div (SecondsPerDay * DaysPerMonth)

MinuteOf(t) == (t % SecondsPerHour) \div SecondsPerMinute

SecondOf(t) == t % SecondsPerMinute


----------------------------------------------------------------------------
(* Inputs of the requests                                                  *)

RoomNumbers == {101, 102}

Capacities == {20, 80}

FloorInputs == 0 .. (MaxFloors - 1)

OrgInputs == {"acme", "Acme"}

EmailInputs == {"u1@acme.com", "U1@ACME.COM"}

EmpIdInputs == {"e1"}

BookingIds == 1 .. (MaxBookings + 1)

T0900 == At(0, 2, 9, 0, 0)

T0930 == At(0, 2, 9, 30, 0)

T1000 == At(0, 2, 10, 0, 0)

T1030 == At(0, 2, 10, 30, 0)

T1100 == At(0, 2, 11, 0, 0)

T0100 == T0900 + 16 * SecondsPerHour

T1600 == T0900 + 31 * SecondsPerHour

(* <<start_time, end_time>> of the booking requests: a one-hour slot, a    *)
(* slot off the hour that overlaps it, the slot back-to-back with it, and  *)
(* a sixteen-hour slot that overlaps both aligned slots                    *)
Slots ==
    { <<T0900, T1000>>, <<T0930, T1030>>, <<T1000, T1100>>, <<T0900, T0100>> }

(* The instants at which the wall clock is read                            *)
Instants ==
    { At(0, 1, 8, 0, 0),
      T0900 - (CancelMinutes * SecondsPerMinute) - 1,
      T0900 - (CancelMinutes * SecondsPerMinute),
      At(1, 1, 8, 0, 0),
      At(1, 2, 8, 0, 0) }

StartInstant == At(0, 1, 8, 0, 0)

(* The clock at the start, in the middle and at the end of the slot of     *)
(* 9:00 to 10:00                                                           *)
StatusInstants == { T0900, T0930, T1000 }

RoomRequests ==
    [floor_number : FloorInputs, room_number : RoomNumbers, capacity : Capacities]

OrgRequests == [org_name : OrgInputs, org_email : {"a@x.com"}]

UserRequests ==
    [name : {"User One"}, organization : OrgInputs, emp_id : EmpIdInputs,
     email : EmailInputs, role : {"member"}, permissions : {"book"}]

(* A booking request; parseable is whether both timestamps match the       *)
(* format '%Y-%m-%d %H:%M:%S' that strptime is given                       *)
BookingRequest(f, r, o, e, s, p) ==
    [floor_number |-> f, room_number |-> r, organization |-> o,
     booked_by |-> [name |-> "User One", email |-> e],
     start_time |-> s[1], end_time |-> s[2], parseable |-> p]

(* Every slot on every room of floor 0 by the user u1@acme.com of acme     *)
CoreBookingRequests ==
    { BookingRequest(0, r, "acme", "u1@acme.com", s, TRUE) :
        r \in RoomNumbers, s \in Slots }

(* The one-hour slot with a timestamp that does not parse, on a second     *)
(* floor, on a room number no floor has, by an email in upper case; a      *)
(* slot of 31 hours for an organization that is not registered             *)
EdgeBookingRequests ==
    { BookingRequest(0, 101, "acme", "u1@acme.com", <<T0900, T1000>>, FALSE),
      BookingRequest(1, 101, "acme", "u1@acme.com", <<T0900, T1000>>, TRUE),
      BookingRequest(0, 103, "acme", "u1@acme.com", <<T0900, T1000>>, TRUE),
      BookingRequest(0, 101, "acme", "U1@ACME.COM", <<T0900, T1000>>, TRUE),
      BookingRequest(0, 101, "globex", "u1@acme.com", <<T0900, T1600>>, TRUE) }

BookingRequests == CoreBookingRequests \cup EdgeBookingRequests

(* The query parameters of GET /rooms/search; a parameter that is not      *)
(* given is the empty set, a given one the set of its value                *)
SearchRequests ==
    [floor_number : {{}} \cup {{f} : f \in FloorInputs}, capacity : {{}, {80}},
     start_time : {T0900}, end_time : {T1000}]

(* The slots of 9:00 to 10:00 and of 10:00 to 11:00 on either room         *)
StatusRequests ==
    { BookingRequest(0, r, "acme", "u1@acme.com", s, TRUE) :
        r \in RoomNumbers, s \in { <<T0900, T1000>>, <<T1000, T1100>> } }

(* Hour-aligned timestamps with the end before the start, and with the     *)
(* end at the start                                                        *)
ReversedBookingRequests ==
    { BookingRequest(0, 101, "acme", "u1@acme.com", <<T1000, T0900>>, TRUE),
      BookingRequest(0, 101, "acme", "u1@acme.com", <<T0900, T0900>>, TRUE) }

IntervalRequests == BookingRequests \cup ReversedBookingRequests

----------------------------------------------------------------------------
(* src/service: the entity constructors and the pure functions             *)

define_floor(floor_number) ==
    [floor_number |-> floor_number, capacity |-> FloorCapacity, rooms |-> EmptyDict]

calculate_available_capacity(floor) ==
    floor.capacity - SumOver(floor.rooms, DOMAIN floor.rooms)

define_room(room_number, capacity, floor_number) ==
    [room_number |-> room_number, capacity |-> capacity, floor_number |-> floor_number]

(* The dict literal of lines 16-21 has no comma after "limit": Python      *)
(* joins the adjacent literals "limit" "users" into the one key            *)
(* "limitusers", so the record has no key "users"                          *)
define_organization(org_name, org_email) ==
    [org_name |-> org_name, org_email |-> org_email, limitusers |-> EmptyDict]

(* The record define_organization's docstring describes: "org_name,        *)
(* org_email, and an empty users dictionary"                               *)
documented_organization(org_name, org_email) ==
    [org_name |-> org_name, org_email |-> org_email, users |-> EmptyDict]

define_user(name, organization, emp_id, email, role, permissions) ==
    [name |-> name, organization |-> organization, emp_id |-> emp_id,
     email |-> email, role |-> role, permissions |-> permissions]

(* all(user["emp_id"] != new_emp_id for user in user_list): the callers    *)
(* pass the users dict, whose iteration yields its keys, the email         *)
(* strings; subscripting a str with "emp_id" raises TypeError, so the      *)
(* call returns True on an empty dict and raises on any other              *)
is_emp_id_unique(new_emp_id, user_list) ==
    IF DOMAIN user_list = {} THEN "True" ELSE "TypeError"

is_email_unique(new_email, user_list) ==
    IF DOMAIN user_list = {} THEN "True" ELSE "TypeError"

define_booking(booking_id, floor_number, room_number, organization, booked_by, start_time, end_time) ==
    [booking_id |-> booking_id, floor_number |-> floor_number,
     room_number |-> room_number, organization |-> organization,
     booked_by |-> booked_by, start_time |-> start_time, end_time |-> end_time]

(* is_room_available comparing the end of the request with the end of     *)
(* the booking instead of its start                                        *)
is_room_available_wrong_field(bookings, floor_number, room_number, start_time, end_time) ==
    ~ \E booking \in Values(bookings) :
        /\ booking.floor_number = floor_number /\ booking.room_number = room_number
        /\ start_time < booking.end_time /\ end_time > booking.end_time

(* is_room_available with closed intervals                                 *)
is_room_available_closed(bookings, floor_number, room_number, start_time, end_time) ==
    ~ \E booking \in Values(bookings) :
        /\ booking.floor_number = floor_number /\ booking.room_number = room_number
        /\ start_time <= booking.end_time /\ end_time >= booking.start_time

is_room_available(bookings, floor_number, room_number, start_time, end_time) ==
    LET floor_bookings ==
            { b \in Values(bookings) :
                b.floor_number = floor_number /\ b.room_number = room_number }
    IN ~ \E booking \in floor_bookings :
            start_time < booking.end_time /\ end_time > booking.start_time

(* Lines 36-51 with a room taken from the start of a booking on: the       *)
(* window meets a booking that starts at the end of the window             *)
list_rooms_with_availability_from_start(floors, bookings, start_time, end_time) ==
    LET taken(f, r) ==
            \E booking \in Values(bookings) :
                /\ booking.floor_number = f /\ booking.room_number = r
                /\ start_time < booking.end_time /\ end_time >= booking.start_time
        marked(f, r) == Put(floors[f].rooms[r], "currently_available", ~ taken(f, r))
        after == [f \in DOMAIN floors |->
                    [floors[f] EXCEPT
                        !.rooms = [r \in DOMAIN floors[f].rooms |-> marked(f, r)]]]
    IN [floors |-> after,
        rooms |-> UNION { { [floor_number |-> f, room_info |-> after[f].rooms[r]] :
                              r \in DOMAIN floors[f].rooms } : f \in DOMAIN floors } ]

(* src/service/room.py, lines 36-51.  Line 48 writes the availability      *)
(* into room_info, which is the room record stored on the floor, so the    *)
(* function returns the list and leaves the floors with the records        *)
(* marked.  The callers pass start_time = end_time = datetime.now()        *)
list_rooms_with_availability(floors, bookings, start_time, end_time) ==
    LET marked(f, r) ==
            Put(floors[f].rooms[r], "currently_available",
                is_room_available(bookings, f, r, start_time, end_time))
        after == [f \in DOMAIN floors |->
                    [floors[f] EXCEPT
                        !.rooms = [r \in DOMAIN floors[f].rooms |-> marked(f, r)]]]
    IN [floors |-> after,
        rooms |-> UNION { { [floor_number |-> f, room_info |-> after[f].rooms[r]] :
                              r \in DOMAIN floors[f].rooms } : f \in DOMAIN floors } ]

(* Lines 110-115: the bookings whose organization, lower-cased, is the     *)
(* name given; the list is modelled by the set of its elements             *)
list_bookings_for_organization(bookings, organization_name) ==
    { booking \in Values(bookings) : Lower(booking.organization) = organization_name }

(* The names src/service/booking.py binds at module level: its import and  *)
(* its functions.  all_bookings is a global of src/app.py, not of this     *)
(* module                                                                  *)
booking_module_globals ==
    { "uuid4", "define_booking", "is_room_available", "available_rooms_of_floor",
      "list_all_available_rooms", "list_bookings_for_organization",
      "get_booking_by_organization_and_id" }

(* Lines 128-131: the loop reads the global name all_bookings, which       *)
(* raises NameError where the module does not bind it; otherwise the       *)
(* booking with this organization and id, or None                          *)
get_booking_by_organization_and_id(bookings, organization_name, booking_id) ==
    IF "all_bookings" \notin booking_module_globals
    THEN [raised |-> "NameError", found |-> {}]
    ELSE [raised |-> "no",
          found |-> { b \in Values(bookings) :
                        b.organization = organization_name /\ b.booking_id = booking_id }]

reset_monthly_booking_hours(hours, current_date) ==
    IF DayOf(current_date) = 1 THEN EmptyDict ELSE hours


----------------------------------------------------------------------------
(* src/app.py: the handlers.  Each handler is an operator from the state   *)
(* and the request to the response kind and the dictionaries it leaves.    *)

(* add_floor, lines 36-41.  Floors are inserted in increasing order and    *)
(* never removed, so list(all_floors.keys())[-1] is the largest key        *)
add_floor_run(floors) ==
    LET floor_number == IF DOMAIN floors = {} THEN 0 ELSE MaxOf(DOMAIN floors) + 1
    IN [kind |-> "Success", floors |-> Put(floors, floor_number, define_floor(floor_number))]

(* add_room, lines 105-111: the floor exists, and its remaining capacity   *)
add_room_lookup(floors, data) ==
    IF data.floor_number \notin DOMAIN floors
    THEN [kind |-> "FloorNotFound", available_capacity |-> 0]
    ELSE [kind |-> "next",
          available_capacity |-> calculate_available_capacity(floors[data.floor_number])]

(* Lines 112-115 without the test of the capacity                          *)
add_room_validate_no_capacity(floors, data, available_capacity) ==
    IF data.room_number \in DOMAIN floors[data.floor_number].rooms
    THEN "RoomExists"
    ELSE "next"

(* Lines 112-115 with "<=" at line 114                                     *)
add_room_validate_strict(floors, data, available_capacity) ==
    IF data.room_number \in DOMAIN floors[data.floor_number].rooms
    THEN "RoomExists"
    ELSE IF available_capacity <= data.capacity
         THEN "CapacityExceeded"
         ELSE "next"

(* add_room, lines 112-115: the room number is new and the capacity fits   *)
add_room_validate(floors, data, available_capacity) ==
    IF data.room_number \in DOMAIN floors[data.floor_number].rooms
    THEN "RoomExists"
    ELSE IF available_capacity < data.capacity
         THEN "CapacityExceeded"
         ELSE "next"

(* add_room, lines 116-121                                                 *)
add_room_store(floors, data) ==
    LET new_room == define_room(data.room_number, data.capacity, data.floor_number)
        floor == floors[data.floor_number]
    IN Put(floors, data.floor_number,
           [floor EXCEPT !.rooms = Put(floor.rooms, data.room_number, new_room)])

(* add_room run to completion by one thread with no other thread between  *)
add_room_run(floors, data) ==
    LET looked == add_room_lookup(floors, data)
        checked == add_room_validate(floors, data, looked.available_capacity)
    IN IF looked.kind # "next" THEN [kind |-> looked.kind, floors |-> floors]
       ELSE IF checked # "next" THEN [kind |-> checked, floors |-> floors]
       ELSE [kind |-> "Success", floors |-> add_room_store(floors, data)]

(* Lines 211-221 without the lower() of line 213                           *)
add_org_run_case_sensitive(orgs, data) ==
    LET org_name == data.org_name
    IN IF org_name \in DOMAIN orgs
       THEN [kind |-> "DuplicateName", orgs |-> orgs]
       ELSE [kind |-> "Success",
             orgs |-> Put(orgs, org_name, define_organization(org_name, data.org_email))]

(* add_org, lines 211-221                                                  *)
add_org_run(orgs, data) ==
    LET org_name == Lower(data.org_name)
    IN IF org_name \in DOMAIN orgs
       THEN [kind |-> "DuplicateName", orgs |-> orgs]
       ELSE [kind |-> "Success",
             orgs |-> Put(orgs, org_name, define_organization(org_name, data.org_email))]

(* add_user, lines 287-309                                                 *)
add_user_run(orgs, data) ==
    LET email == Lower(data.email)
        emp_id == Lower(data.emp_id)
        organization == data.organization
        fail(kind) == [kind |-> kind, orgs |-> orgs]
    IN IF organization \notin DOMAIN orgs THEN fail("OrgNotFound")
       ELSE IF "users" \notin DOMAIN orgs[organization] THEN fail("InternalFault")
       ELSE LET users == orgs[organization].users
                email_unique == is_email_unique(email, users)
                emp_id_unique == is_emp_id_unique(emp_id, users)
                new_user == define_user(data.name, organization, emp_id, email,
                                        data.role, data.permissions)
            IN IF email_unique = "TypeError" THEN fail("InternalFault")
               ELSE IF email_unique = "False" THEN fail("DuplicateEmail")
               ELSE IF emp_id_unique = "TypeError" THEN fail("InternalFault")
               ELSE IF emp_id_unique = "False" THEN fail("DuplicateEmpId")
               ELSE [kind |-> "Success",
                     orgs |-> Put(orgs, organization,
                                  [orgs[organization] EXCEPT
                                      !.users = Put(users, email, new_user)])]

(* Line 387 without its test of the minute                                 *)
on_the_hour_seconds_only(t) == SecondOf(t) = 0

(* Line 387, for one of the two timestamps                                 *)
on_the_hour(t) == MinuteOf(t) = 0 /\ SecondOf(t) = 0

(* Lines 397-401 without the addition of the duration                      *)
booked_hours_uncounted(hours, organization, start_time, end_time) ==
    IF organization \in DOMAIN hours THEN hours[organization] ELSE 0

(* The hours line 397-401 leaves for the organization                      *)
booked_hours(hours, organization, start_time, end_time) ==
    LET booking_duration == (end_time - start_time) \div SecondsPerHour
    IN IF organization \in DOMAIN hours
       THEN hours[organization] + booking_duration
       ELSE booking_duration

(* Lines 379-418 with the addition of lines 397-401 moved before the test *)
(* of line 387                                                             *)
add_boooking_run_counting_first(floors, orgs, bookings, booking_hours, current_date, uuid, data) ==
    LET hours == reset_monthly_booking_hours(booking_hours, current_date)
        start_time == data.start_time
        end_time == data.end_time
        organization == Lower(data.organization)
        floor_number == data.floor_number
        room_number == data.room_number
        fail(kind, h) == [kind |-> kind, bookings |-> bookings, hours |-> h, booking_id |-> 0]
        total == booked_hours(hours, organization, start_time, end_time)
        counted == Put(hours, organization, total)
        new_booking == define_booking(uuid, floor_number, room_number, data.organization,
                                      data.booked_by, start_time, end_time)
    IN IF ~ data.parseable THEN fail("InternalFault", hours)
       ELSE IF ~ on_the_hour(start_time) \/ ~ on_the_hour(end_time)
            THEN fail("BadTimeAlignment", counted)
       ELSE IF floor_number \notin DOMAIN floors THEN fail("FloorNotFound", counted)
       ELSE IF room_number \notin DOMAIN floors[floor_number].rooms
            THEN fail("RoomNotFound", counted)
       ELSE IF organization \notin DOMAIN orgs THEN fail("InternalFault", hours)
       ELSE IF "users" \notin DOMAIN orgs[organization] THEN fail("InternalFault", hours)
       ELSE IF data.booked_by.email \notin DOMAIN orgs[organization].users
            THEN fail("UserNotFound", counted)
       ELSE IF total > QuotaHours THEN fail("QuotaExceeded", counted)
       ELSE IF ~ is_room_available(bookings, floor_number, room_number, start_time, end_time)
            THEN fail("RoomUnavailable", counted)
       ELSE [kind |-> "Success", bookings |-> Put(bookings, uuid, new_booking),
             hours |-> counted, booking_id |-> uuid]

(* add_boooking, lines 379-418.  The reset of line 380 comes before every  *)
(* check, so it stays when the request is rejected.  At line 397 both      *)
(* times are on the hour, so the duration is a whole number of hours.      *)
(* uuid4() is taken to return a value it never returned before.            *)
add_boooking_run(floors, orgs, bookings, booking_hours, current_date, uuid, data) ==
    LET hours == reset_monthly_booking_hours(booking_hours, current_date)
        start_time == data.start_time
        end_time == data.end_time
        organization == Lower(data.organization)
        floor_number == data.floor_number
        room_number == data.room_number
        fail(kind, h) == [kind |-> kind, bookings |-> bookings, hours |-> h, booking_id |-> 0]
        total == booked_hours(hours, organization, start_time, end_time)
        counted == Put(hours, organization, total)
        new_booking == define_booking(uuid, floor_number, room_number, data.organization,
                                      data.booked_by, start_time, end_time)
    IN IF ~ data.parseable THEN fail("InternalFault", hours)
       ELSE IF ~ on_the_hour(start_time) \/ ~ on_the_hour(end_time)
            THEN fail("BadTimeAlignment", hours)
       ELSE IF floor_number \notin DOMAIN floors THEN fail("FloorNotFound", hours)
       ELSE IF room_number \notin DOMAIN floors[floor_number].rooms
            THEN fail("RoomNotFound", hours)
       ELSE IF organization \notin DOMAIN orgs THEN fail("InternalFault", hours)
       ELSE IF "users" \notin DOMAIN orgs[organization] THEN fail("InternalFault", hours)
       ELSE IF data.booked_by.email \notin DOMAIN orgs[organization].users
            THEN fail("UserNotFound", hours)
       ELSE IF total > QuotaHours THEN fail("QuotaExceeded", counted)
       ELSE IF ~ is_room_available(bookings, floor_number, room_number, start_time, end_time)
            THEN fail("RoomUnavailable", counted)
       ELSE [kind |-> "Success", bookings |-> Put(bookings, uuid, new_booking),
             hours |-> counted, booking_id |-> uuid]

(* get_rooms, lines 137-142: no window is given, so the window is the      *)
(* instant datetime.now()                                                  *)
get_rooms_run(floors, bookings, current_time) ==
    LET listed == list_rooms_with_availability(floors, bookings, current_time, current_time)
    IN [kind |-> "Success", floors |-> listed.floors, data |-> listed.rooms]

(* search_rooms, lines 161-189.  The loop of line 169 binds floor_number   *)
(* again, so the test of line 174 compares the floor of the loop with      *)
(* itself and not with the parameter                                       *)
search_rooms_run(floors, bookings, args) ==
    LET capacity == args.capacity
        available_rooms ==
            UNION { { [floor_number |-> floor_number, room_number |-> room_number,
                       capacity |-> floors[floor_number].rooms[room_number].capacity] :
                      room_number \in
                        { r \in DOMAIN floors[floor_number].rooms :
                            /\ floor_number = floor_number
                            /\ \/ capacity = {}
                               \/ \A c \in capacity : floors[floor_number].rooms[r].capacity >= c
                            /\ is_room_available(bookings, floor_number, r,
                                                 args.start_time, args.end_time) } } :
                    floor_number \in DOMAIN floors }
    IN [kind |-> "Success", data |-> available_rooms]

(* get_bookings, lines 434-438: org_name is passed on as the URL gives it  *)
get_bookings_run(bookings, org_name) ==
    [kind |-> "Success", data |-> list_bookings_for_organization(bookings, org_name)]

(* get_booking, lines 456-460: the booking, None when there is none        *)
get_booking_run(bookings, org_name, booking_id) ==
    LET booking == get_booking_by_organization_and_id(bookings, Lower(org_name), booking_id)
    IN IF booking.raised # "no" THEN "InternalFault"
       ELSE IF booking.found = {} THEN "NotFound"
       ELSE "Found"

(* del_booking with "<=" at line 486                                       *)
del_booking_run_inclusive(bookings, current_time, booking_id) ==
    IF booking_id \in DOMAIN bookings
    THEN IF current_time <= bookings[booking_id].start_time - CancelMinutes * SecondsPerMinute
         THEN [kind |-> "Success", bookings |-> Del(bookings, booking_id)]
         ELSE [kind |-> "TooLateToCancel", bookings |-> bookings]
    ELSE [kind |-> "NotFound", bookings |-> bookings]

(* del_booking, lines 479-492; org_name is not read                        *)
del_booking_run(bookings, current_time, booking_id) ==
    IF booking_id \in DOMAIN bookings
    THEN LET start_time == bookings[booking_id].start_time
         IN IF current_time < start_time - CancelMinutes * SecondsPerMinute
            THEN [kind |-> "Success", bookings |-> Del(bookings, booking_id)]
            ELSE [kind |-> "TooLateToCancel", bookings |-> bookings]
    ELSE [kind |-> "NotFound", bookings |-> bookings]


----------------------------------------------------------------------------
(* The state machine                                                       *)

Threads == 1 .. NThreads

NoMonth == 0 - 1

Idle == [at |-> "idle"]

Reply(op, kind) == [op |-> op, kind |-> kind]

Init ==
    /\ all_floors = EmptyDict
    /\ all_orgs = EmptyDict
    /\ all_bookings = EmptyDict
    /\ organization_booking_hours = EmptyDict
    /\ now = StartInstant
    /\ next_id = 0
    /\ pc = [t \in Threads |-> Idle]
    /\ lock = FALSE
    /\ last = Reply("none", "none")
    /\ asked_users = {}
    /\ quota_checks = 0
    /\ counted_month = NoMonth

(* The clock moves on to a later instant                                   *)
Tick(t) ==
    /\ t > now
    /\ now' = t
    /\ UNCHANGED << lock, all_floors, all_orgs, all_bookings, organization_booking_hours,
                    next_id, pc, last, asked_users, quota_checks, counted_month >>

add_floor ==
    /\ Cardinality(DOMAIN all_floors) < MaxFloors
    /\ LET r == add_floor_run(all_floors)
       IN /\ all_floors' = r.floors
          /\ last' = Reply("add_floor", r.kind)
    /\ UNCHANGED << lock, all_orgs, all_bookings, organization_booking_hours, now,
                    next_id, pc, asked_users, quota_checks, counted_month >>

add_room(data) ==
    /\ LET r == add_room_run(all_floors, data)
       IN /\ all_floors' = r.floors
          /\ last' = Reply("add_room", r.kind)
    /\ UNCHANGED << lock, all_orgs, all_bookings, organization_booking_hours, now,
                    next_id, pc, asked_users, quota_checks, counted_month >>

add_org(data) ==
    /\ LET r == add_org_run(all_orgs, data)
       IN /\ all_orgs' = r.orgs
          /\ last' = Reply("add_org", r.kind)
    /\ UNCHANGED << lock, all_floors, all_bookings, organization_booking_hours, now,
                    next_id, pc, asked_users, quota_checks, counted_month >>

add_user(data) ==
    /\ LET r == add_user_run(all_orgs, data)
       IN /\ all_orgs' = r.orgs
          /\ last' = Reply("add_user", r.kind)
    /\ asked_users' = IF data.organization \in DOMAIN all_orgs
                      THEN asked_users \cup {Lower(data.email)}
                      ELSE asked_users
    /\ UNCHANGED << lock, all_floors, all_bookings, organization_booking_hours, now,
                    next_id, pc, quota_checks, counted_month >>

add_boooking(data) ==
    /\ LET r == add_boooking_run(all_floors, all_orgs, all_bookings,
                                 organization_booking_hours, now, next_id + 1, data)
           counted == r.kind \in {"QuotaExceeded", "RoomUnavailable", "Success"}
       IN /\ r.kind = "Success" => next_id < MaxBookings
          /\ counted => quota_checks < MaxQuotaChecks
          /\ quota_checks' = IF counted THEN quota_checks + 1 ELSE quota_checks
          /\ counted_month' =
                IF DOMAIN r.hours = {} THEN NoMonth
                ELSE IF DOMAIN reset_monthly_booking_hours(organization_booking_hours, now) = {}
                     THEN MonthOf(now)
                     ELSE counted_month
          /\ all_bookings' = r.bookings
          /\ organization_booking_hours' = r.hours
          /\ next_id' = IF r.kind = "Success" THEN next_id + 1 ELSE next_id
          /\ last' = Reply("add_boooking", r.kind)
    /\ UNCHANGED << lock, all_floors, all_orgs, now, pc, asked_users >>

(* del_booking giving the hours of the cancelled booking back              *)
del_booking_refunding(booking_id) ==
    /\ LET r == del_booking_run(all_bookings, now, booking_id)
           refunded ==
               LET booking == all_bookings[booking_id]
                   org == Lower(booking.organization)
               IN IF org \in DOMAIN organization_booking_hours
                  THEN Put(organization_booking_hours, org,
                           organization_booking_hours[org]
                           - (booking.end_time - booking.start_time) \div SecondsPerHour)
                  ELSE organization_booking_hours
       IN /\ all_bookings' = r.bookings
          /\ last' = Reply("del_booking", r.kind)
          /\ organization_booking_hours' =
                IF r.kind = "Success" THEN refunded ELSE organization_booking_hours
    /\ UNCHANGED << lock, all_floors, all_orgs, now, next_id, pc, asked_users,
                    quota_checks, counted_month >>

del_booking(booking_id) ==
    /\ LET r == del_booking_run(all_bookings, now, booking_id)
       IN /\ all_bookings' = r.bookings
          /\ last' = Reply("del_booking", r.kind)
    /\ UNCHANGED << lock, all_floors, all_orgs, organization_booking_hours, now,
                    next_id, pc, asked_users, quota_checks, counted_month >>

get_booking(org_name, booking_id) ==
    /\ last' = Reply("get_booking", get_booking_run(all_bookings, org_name, booking_id))
    /\ UNCHANGED << lock, all_floors, all_orgs, all_bookings, organization_booking_hours, now,
                    next_id, pc, asked_users, quota_checks, counted_month >>

get_bookings(org_name) ==
    /\ last' = Reply("get_bookings", get_bookings_run(all_bookings, org_name).kind)
    /\ UNCHANGED << lock, all_floors, all_orgs, all_bookings, organization_booking_hours, now,
                    next_id, pc, asked_users, quota_checks, counted_month >>

get_rooms ==
    /\ LET r == get_rooms_run(all_floors, all_bookings, now)
       IN /\ all_floors' = r.floors
          /\ last' = Reply("get_rooms", r.kind)
    /\ UNCHANGED << lock, all_orgs, all_bookings, organization_booking_hours, now,
                    next_id, pc, asked_users, quota_checks, counted_month >>

search_rooms(args) ==
    /\ last' = Reply("search_rooms", search_rooms_run(all_floors, all_bookings, args).kind)
    /\ UNCHANGED << lock, all_floors, all_orgs, all_bookings, organization_booking_hours,
                    now, next_id, pc, asked_users, quota_checks, counted_month >>

(* Requests handled one at a time, each handler run to completion          *)
Next ==
    \/ add_floor
    \/ \E data \in RoomRequests : add_room(data)
    \/ \E data \in OrgRequests : add_org(data)
    \/ \E data \in UserRequests : add_user(data)
    \/ \E data \in BookingRequests : add_boooking(data)
    \/ \E booking_id \in BookingIds : del_booking(booking_id)
    \/ \E booking_id \in BookingIds : get_booking("acme", booking_id)
    \/ \E org_name \in OrgInputs : get_bookings(org_name)
    \/ \E t \in Instants : Tick(t)

Spec == Init /\ [][Next]_vars

(* add_room takes no lock (lines 104-123): between its reads and its       *)
(* write the other threads run                                             *)
add_room_begin(t, data) ==
    /\ pc[t].at = "idle"
    /\ LET looked == add_room_lookup(all_floors, data)
       IN IF looked.kind = "next"
          THEN /\ pc' = [pc EXCEPT ![t] =
                            [at |-> "looked_up", data |-> data,
                             available_capacity |-> looked.available_capacity]]
               /\ last' = last
          ELSE /\ pc' = pc
               /\ last' = Reply("add_room", looked.kind)
    /\ UNCHANGED << lock, all_floors, all_orgs, all_bookings, organization_booking_hours,
                    now, next_id, asked_users, quota_checks, counted_month >>

add_room_check(t) ==
    /\ pc[t].at = "looked_up"
    /\ LET checked == add_room_validate(all_floors, pc[t].data, pc[t].available_capacity)
       IN IF checked = "next"
          THEN /\ pc' = [pc EXCEPT ![t] = [at |-> "validated", data |-> pc[t].data]]
               /\ last' = last
          ELSE /\ pc' = [pc EXCEPT ![t] = Idle]
               /\ last' = Reply("add_room", checked)
    /\ UNCHANGED << lock, all_floors, all_orgs, all_bookings, organization_booking_hours,
                    now, next_id, asked_users, quota_checks, counted_month >>

add_room_finish(t) ==
    /\ pc[t].at = "validated"
    /\ all_floors' = add_room_store(all_floors, pc[t].data)
    /\ pc' = [pc EXCEPT ![t] = Idle]
    /\ last' = Reply("add_room", "Success")
    /\ UNCHANGED << lock, all_orgs, all_bookings, organization_booking_hours, now,
                    next_id, asked_users, quota_checks, counted_month >>

NextThreads ==
    \/ add_floor
    \/ \E t \in Threads, data \in RoomRequests : add_room_begin(t, data)
    \/ \E t \in Threads : add_room_check(t)
    \/ \E t \in Threads : add_room_finish(t)

SpecThreads == Init /\ [][NextThreads]_vars

(* The routes of the floors and rooms, one request at a time               *)
NextRooms ==
    \/ add_floor
    \/ \E data \in RoomRequests : add_room(data)
    \/ get_rooms
    \/ \E args \in SearchRequests : search_rooms(args)

SpecRooms == Init /\ [][NextRooms]_vars

(* The booking handlers on a directory that holds one floor with its       *)
(* rooms and the organization record as define_organization documents it   *)
DocumentedFloors ==
    LET f0 == add_floor_run(EmptyDict).floors
        f1 == add_room_run(f0, [floor_number |-> 0, room_number |-> 101, capacity |-> 20]).floors
    IN add_room_run(f1, [floor_number |-> 0, room_number |-> 102, capacity |-> 20]).floors

InitDocumented ==
    /\ all_floors = DocumentedFloors
    /\ all_orgs = ("acme" :> documented_organization("acme", "a@x.com"))
    /\ all_bookings = EmptyDict
    /\ organization_booking_hours = EmptyDict
    /\ now = StartInstant
    /\ next_id = 0
    /\ pc = [t \in Threads |-> Idle]
    /\ lock = FALSE
    /\ last = Reply("none", "none")
    /\ asked_users = {}
    /\ quota_checks = 0
    /\ counted_month = NoMonth

NextBooking ==
    \/ \E data \in UserRequests : add_user(data)
    \/ \E data \in BookingRequests : add_boooking(data)
    \/ \E booking_id \in BookingIds : del_booking(booking_id)
    \/ \E booking_id \in BookingIds : get_booking("acme", booking_id)
    \/ \E org_name \in OrgInputs : get_bookings(org_name)
    \/ \E t \in Instants : Tick(t)

SpecDocumented == InitDocumented /\ [][NextBooking]_vars

(* The same handlers, the booking requests with any order of the two       *)
(* timestamps                                                              *)
NextIntervals ==
    \/ \E data \in UserRequests : add_user(data)
    \/ \E data \in IntervalRequests : add_boooking(data)
    \/ \E booking_id \in BookingIds : del_booking(booking_id)
    \/ \E t \in Instants : Tick(t)

SpecIntervals == InitDocumented /\ [][NextIntervals]_vars

(* The registration and booking handlers alone, nothing being cancelled    *)
NextCreate ==
    \/ \E data \in UserRequests : add_user(data)
    \/ \E data \in BookingRequests : add_boooking(data)
    \/ \E t \in Instants : Tick(t)

SpecCreate == InitDocumented /\ [][NextCreate]_vars

(* Bookings being made and the rooms listed while the clock passes over    *)
(* the booked slots                                                        *)
NextRoomStatus ==
    \/ \E data \in UserRequests : add_user(data)
    \/ \E data \in StatusRequests : add_boooking(data)
    \/ get_rooms
    \/ \E t \in StatusInstants : Tick(t)

SpecRoomStatus == InitDocumented /\ [][NextRoomStatus]_vars

(* The handlers that run under "with lock", one thread for each request.   *)
(* A request waits at the "with lock" line of its handler, enters when     *)
(* the lock is free, and runs the body of the handler to its return.       *)
LockRequests ==
    { [op |-> "add_user", data |-> data] :
        data \in { u \in UserRequests : u.organization = "acme" /\ u.email = "u1@acme.com" } }
    \cup { [op |-> "add_boooking", data |-> data] :
             data \in { BookingRequest(0, 101, "acme", "u1@acme.com", <<T0900, T1000>>, TRUE),
                        BookingRequest(0, 101, "acme", "u1@acme.com", <<T0900, T1000>>, FALSE) } }
    \cup { [op |-> "del_booking", data |-> [booking_id |-> 1]] }

InFlight(op) == Cardinality({ u \in Threads : pc[u].at # "idle" /\ pc[u].op = op })

(* A request reaches its handler.  The requests for bookings are counted   *)
(* on arrival, so that as many arrive as the bounds let finish             *)
arrive(t, request) ==
    /\ pc[t].at = "idle"
    /\ request.op = "add_boooking"
       => /\ next_id + InFlight("add_boooking") < MaxBookings
          /\ quota_checks + InFlight("add_boooking") < MaxQuotaChecks
    /\ pc' = [pc EXCEPT ![t] = [at |-> "waiting", op |-> request.op, data |-> request.data]]
    /\ UNCHANGED << lock, all_floors, all_orgs, all_bookings, organization_booking_hours,
                    now, next_id, last, asked_users, quota_checks, counted_month >>

(* lock.__enter__ (lines 288, 379, 479): threading.Lock is taken by one    *)
(* of the threads that find it free, in no order                           *)
acquire(t) ==
    /\ pc[t].at = "waiting"
    /\ ~ lock
    /\ lock' = TRUE
    /\ pc' = [pc EXCEPT ![t].at = "locked"]
    /\ UNCHANGED << all_floors, all_orgs, all_bookings, organization_booking_hours,
                    now, next_id, last, asked_users, quota_checks, counted_month >>

(* The with statement keeping the lock when its body raises                *)
lock_after_with_kept_on_raise(kind) == kind = "InternalFault"

(* lock.__exit__: the with statement releases the lock when its body       *)
(* returns and when it raises, before the except clause answers            *)
lock_after_with(kind) == FALSE

(* add_user, lines 288-309, by the thread that holds the lock              *)
add_user_locked(t) ==
    /\ pc[t].at = "locked" /\ pc[t].op = "add_user"
    /\ LET r == add_user_run(all_orgs, pc[t].data)
       IN /\ all_orgs' = r.orgs
          /\ last' = Reply("add_user", r.kind)
          /\ lock' = lock_after_with(r.kind)
    /\ asked_users' = IF pc[t].data.organization \in DOMAIN all_orgs
                      THEN asked_users \cup {Lower(pc[t].data.email)}
                      ELSE asked_users
    /\ pc' = [pc EXCEPT ![t] = Idle]
    /\ UNCHANGED << all_floors, all_bookings, organization_booking_hours, now,
                    next_id, quota_checks, counted_month >>

(* add_boooking, lines 379-418, by the thread that holds the lock          *)
add_boooking_locked(t) ==
    /\ pc[t].at = "locked" /\ pc[t].op = "add_boooking"
    /\ LET r == add_boooking_run(all_floors, all_orgs, all_bookings,
                                 organization_booking_hours, now, next_id + 1, pc[t].data)
           counted == r.kind \in {"QuotaExceeded", "RoomUnavailable", "Success"}
       IN /\ quota_checks' = IF counted THEN quota_checks + 1 ELSE quota_checks
          /\ counted_month' =
                IF DOMAIN r.hours = {} THEN NoMonth
                ELSE IF DOMAIN reset_monthly_booking_hours(organization_booking_hours, now) = {}
                     THEN MonthOf(now)
                     ELSE counted_month
          /\ all_bookings' = r.bookings
          /\ organization_booking_hours' = r.hours
          /\ next_id' = IF r.kind = "Success" THEN next_id + 1 ELSE next_id
          /\ last' = Reply("add_boooking", r.kind)
          /\ lock' = lock_after_with(r.kind)
    /\ pc' = [pc EXCEPT ![t] = Idle]
    /\ UNCHANGED << all_floors, all_orgs, now, asked_users >>

(* del_booking, lines 479-494, by the thread that holds the lock           *)
del_booking_locked(t) ==
    /\ pc[t].at = "locked" /\ pc[t].op = "del_booking"
    /\ LET r == del_booking_run(all_bookings, now, pc[t].data.booking_id)
       IN /\ all_bookings' = r.bookings
          /\ last' = Reply("del_booking", r.kind)
          /\ lock' = lock_after_with(r.kind)
    /\ pc' = [pc EXCEPT ![t] = Idle]
    /\ UNCHANGED << all_floors, all_orgs, organization_booking_hours, now,
                    next_id, asked_users, quota_checks, counted_month >>

(* The body of whichever handler thread t is in                            *)
run_locked(t) == add_user_locked(t) \/ add_boooking_locked(t) \/ del_booking_locked(t)

NextLock ==
    \/ \E t \in Threads : \E request \in LockRequests : arrive(t, request)
    \/ \E t \in Threads : acquire(t)
    \/ \E t \in Threads : add_user_locked(t)
    \/ \E t \in Threads : add_boooking_locked(t)
    \/ \E t \in Threads : del_booking_locked(t)

(* A thread that can take a step is scheduled in the end: weak fairness    *)
(* of taking the free lock and of running the body.  Requests arrive or    *)
(* not, as the clients decide                                              *)
SpecLock ==
    /\ InitDocumented
    /\ [][NextLock]_vars
    /\ \A t \in Threads : WF_vars(acquire(t)) /\ WF_vars(run_locked(t))


----------------------------------------------------------------------------
(* The claims                                                              *)

(* The handlers applied to the present state                               *)
booking_now(data) ==
    add_boooking_run(all_floors, all_orgs, all_bookings, organization_booking_hours,
                     now, next_id + 1, data)

cancel_now(booking_id) == del_booking_run(all_bookings, now, booking_id)

Stored == Values(all_bookings)

SameRoom(a, b) == a.floor_number = b.floor_number /\ a.room_number = b.room_number

Overlap(a, b) == a.start_time < b.end_time /\ a.end_time > b.start_time

FirstBooking == BookingRequest(0, 101, "acme", "u1@acme.com", <<T0900, T1000>>, TRUE)

SecondBooking == BookingRequest(0, 101, "acme", "u1@acme.com", <<T0930, T1030>>, TRUE)

ScenarioDirectory ==
    /\ 0 \in DOMAIN all_floors
    /\ 101 \in DOMAIN all_floors[0].rooms
    /\ all_floors[0].rooms[101].capacity = 20
    /\ "acme" \in DOMAIN all_orgs
    /\ "u1@acme.com" \in asked_users

RecordOf(data, booking) ==
    /\ booking.floor_number = data.floor_number
    /\ booking.room_number = data.room_number
    /\ booking.start_time = data.start_time
    /\ booking.end_time = data.end_time
    /\ booking.booked_by = data.booked_by

(* C2: after addFloor, addRoom(0, 101, 20), addOrganization('acme') and    *)
(* addUser(e1, u1@acme.com, 'acme'), with no booking made yet, the         *)
(* createBooking of room 101 on floor 0 for 09:00-10:00 by that user       *)
(* succeeds and stores the booking under an id no booking had before.      *)
C2_ScenarioBookingSucceeds ==
    (ScenarioDirectory /\ DOMAIN all_bookings = {} /\ DOMAIN organization_booking_hours = {})
    => LET r == booking_now(FirstBooking)
       IN /\ r.kind = "Success"
          /\ r.booking_id \notin DOMAIN all_bookings
          /\ r.booking_id \in DOMAIN r.bookings
          /\ RecordOf(FirstBooking, r.bookings[r.booking_id])

FirstBookingStored == \E b \in Stored : RecordOf(FirstBooking, b)

Hours(booking) == (booking.end_time - booking.start_time) \div SecondsPerHour

RECURSIVE TotalHours(_)
TotalHours(S) ==
    IF S = {} THEN 0
    ELSE LET b == CHOOSE x \in S : TRUE IN Hours(b) + TotalHours(S \ {b})

StoredFor(org) == { b \in Stored : Lower(b.organization) = org }

Orgs == { Lower(o) : o \in OrgInputs }

(* What createBooking tests before the quota: the timestamps parse and     *)
(* are on the hour, the floor and the room exist, the user is one of the   *)
(* organization                                                            *)
PassesDirectoryChecks(data) ==
    /\ data.parseable
    /\ MinuteOf(data.start_time) = 0 /\ SecondOf(data.start_time) = 0
    /\ MinuteOf(data.end_time) = 0 /\ SecondOf(data.end_time) = 0
    /\ data.floor_number \in DOMAIN all_floors
    /\ data.room_number \in DOMAIN all_floors[data.floor_number].rooms
    /\ Lower(data.organization) \in DOMAIN all_orgs
    /\ "users" \in DOMAIN all_orgs[Lower(data.organization)]
    /\ data.booked_by.email \in DOMAIN all_orgs[Lower(data.organization)].users

RoomCapacities(floor) == SumOver(floor.rooms, DOMAIN floor.rooms)

Touches(a, b) == a.start_time = b.end_time \/ a.end_time = b.start_time

CancelLimit(booking) == booking.start_time - 15 * 60

Cancelled == { id \in 1 .. next_id : id \notin DOMAIN all_bookings }

HoursOf(hours, org) == IF org \in DOMAIN hours THEN hours[org] ELSE 0

FailsAlignment(data) ==
    ~ ( /\ MinuteOf(data.start_time) = 0 /\ SecondOf(data.start_time) = 0
        /\ MinuteOf(data.end_time) = 0 /\ SecondOf(data.end_time) = 0 )

FailsFloor(data) == data.floor_number \notin DOMAIN all_floors

FailsRoom(data) ==
    \/ FailsFloor(data)
    \/ data.room_number \notin DOMAIN all_floors[data.floor_number].rooms

FailsUser(data) ==
    LET org == Lower(data.organization)
    IN \/ org \notin DOMAIN all_orgs
       \/ "users" \notin DOMAIN all_orgs[org]
       \/ data.booked_by.email \notin DOMAIN all_orgs[org].users

FailsQuota(data) ==
    HoursOf(reset_monthly_booking_hours(organization_booking_hours, now),
            Lower(data.organization)) + Hours(data) > QuotaHours

FailsAvailability(data) == \E b \in Stored : SameRoom(data, b) /\ Overlap(data, b)

FailedChecks(data) ==
    { c \in {"alignment", "floor", "room", "user", "quota", "availability"} :
        \/ c = "alignment" /\ FailsAlignment(data)
        \/ c = "floor" /\ FailsFloor(data)
        \/ c = "room" /\ FailsRoom(data)
        \/ c = "user" /\ FailsUser(data)
        \/ c = "quota" /\ FailsQuota(data)
        \/ c = "availability" /\ FailsAvailability(data) }

EarliestRejection(data) ==
    IF FailsAlignment(data) THEN "BadTimeAlignment"
    ELSE IF FailsFloor(data) THEN "FloorNotFound"
    ELSE IF FailsRoom(data) THEN "RoomNotFound"
    ELSE IF FailsUser(data) THEN "UserNotFound"
    ELSE IF FailsQuota(data) THEN "QuotaExceeded"
    ELSE IF FailsAvailability(data) THEN "RoomUnavailable"
    ELSE "none"

(* C15: a createBooking with well-formed timestamps that fails two or more *)
(* of the checks is rejected with the kind of the earliest of them in the  *)
(* order alignment, floor, room, user, quota, availability.                *)
C15_EarliestCheckReported ==
    \A data \in BookingRequests :
        (data.parseable /\ Cardinality(FailedChecks(data)) >= 2)
        => booking_now(data).kind = EarliestRejection(data)

(* C16: a createBooking that passes the alignment, floor and room checks   *)
(* and whose booked_by.email is no user of the named organization, or      *)
(* whose organization is not registered, is rejected with UserNotFound.    *)
C16_UnknownUserRejected ==
    \A data \in BookingRequests :
        ( /\ data.parseable
          /\ ~ FailsAlignment(data) /\ ~ FailsFloor(data) /\ ~ FailsRoom(data)
          /\ FailsUser(data) )
        => booking_now(data).kind = "UserNotFound"

UsersOf(orgs, org) == IF "users" \in DOMAIN orgs[org] THEN orgs[org].users ELSE EmptyDict

(* C17: addUser for a registered organization, with an email and an        *)
(* emp_id no user of the organization has, succeeds and stores the user    *)
(* in the organization's user map under the lower-cased email.             *)
C17_NewUserStored ==
    \A data \in UserRequests :
        ( /\ data.organization \in DOMAIN all_orgs
          /\ Lower(data.email) \notin DOMAIN UsersOf(all_orgs, data.organization)
          /\ \A u \in Values(UsersOf(all_orgs, data.organization)) :
                Lower(u.emp_id) # Lower(data.emp_id) )
        => LET r == add_user_run(all_orgs, data)
           IN /\ r.kind = "Success"
              /\ Lower(data.email) \in DOMAIN UsersOf(r.orgs, data.organization)

C19_LookupAnswers ==
    \A booking_id \in BookingIds, org_name \in OrgInputs :
        get_booking_run(all_bookings, org_name, booking_id)
        = IF \E b \in Stored : b.booking_id = booking_id /\ b.organization = Lower(org_name)
          THEN "Found"
          ELSE "NotFound"

C21_SearchKeepsToTheFloor ==
    \A args \in SearchRequests :
        \A f \in args.floor_number :
            \A room \in search_rooms_run(all_floors, all_bookings, args).data :
                room.floor_number = f

(* C27: a step that answers listRooms or searchRooms leaves the floors     *)
(* with their room records, the bookings and the quota tracker as they     *)
(* were.                                                                   *)
C27_RoomQueriesArePureReads ==
    [][ last'.op \in {"get_rooms", "search_rooms"}
        => /\ all_floors' = all_floors
           /\ all_bookings' = all_bookings
           /\ organization_booking_hours' = organization_booking_hours ]_vars

(* C22: addRoom succeeds exactly when the floor exists, the room number    *)
(* is new on it and the capacity is at most what the floor has left, a     *)
(* capacity equal to the rest included, and then stores the room; it is    *)
(* rejected with FloorNotFound when the floor is missing, RoomExists when  *)
(* the number is taken, CapacityExceeded when the capacity does not fit,   *)
(* and a rejection leaves the floors as they were.                         *)
C22_AddRoomDecision ==
    \A data \in RoomRequests :
        LET r == add_room_run(all_floors, data)
        IN IF data.floor_number \notin DOMAIN all_floors
           THEN r.kind = "FloorNotFound" /\ r.floors = all_floors
           ELSE LET floor == all_floors[data.floor_number]
                    taken == data.room_number \in DOMAIN floor.rooms
                    fits == data.capacity <= floor.capacity - RoomCapacities(floor)
                IN /\ r.kind = "Success" <=> (~ taken /\ fits)
                   /\ (taken /\ fits) => r.kind = "RoomExists"
                   /\ (~ taken /\ ~ fits) => r.kind = "CapacityExceeded"
                   /\ (taken /\ ~ fits) => r.kind \in {"RoomExists", "CapacityExceeded"}
                   /\ r.kind # "Success" => r.floors = all_floors
                   /\ r.kind = "Success"
                      => r.floors[data.floor_number].rooms
                         = Put(floor.rooms, data.room_number,
                               [room_number |-> data.room_number,
                                capacity |-> data.capacity,
                                floor_number |-> data.floor_number])

(* The only floor was filled to its capacity by the addRoom just accepted  *)
C22_LastRoomFillsTheFloor ==
    /\ Cardinality(DOMAIN all_floors) = 1
    /\ \A f \in DOMAIN all_floors :
          /\ Cardinality(DOMAIN all_floors[f].rooms) = 2
          /\ RoomCapacities(all_floors[f]) = all_floors[f].capacity
    /\ last = Reply("add_room", "Success")

(* C23: organization names are unique whatever their letter case: every    *)
(* key of the organization store is lower-case, and addOrganization with   *)
(* a name whose lower-case form is registered is rejected with             *)
(* DuplicateName and leaves the organization store unchanged.              *)
C23_OrganizationNamesUnique ==
    /\ \A name \in DOMAIN all_orgs : Lower(name) = name
    /\ \A data \in OrgRequests :
          Lower(data.org_name) \in DOMAIN all_orgs
          => /\ add_org_run(all_orgs, data).kind = "DuplicateName"
             /\ add_org_run(all_orgs, data).orgs = all_orgs

(* "acme" is registered, a request names it in another letter case, and    *)
(* the last addOrganization was rejected as a duplicate                    *)
C23_SecondOrganizationRejected ==
    /\ last = Reply("add_org", "DuplicateName")
    /\ DOMAIN all_orgs = {"acme"}
    /\ \E data \in OrgRequests :
          data.org_name # Lower(data.org_name) /\ Lower(data.org_name) \in DOMAIN all_orgs

BookingsOf(entry) ==
    { booking \in Stored :
        /\ booking.floor_number = entry.floor_number
        /\ booking.room_number = entry.room_info.room_number }

Waiting(t) == pc[t].at = "waiting"

Holding(t) == pc[t].at = "locked"

=============================================================================
